---- MODULE Spec2Model ----
(***************************************************************************)
(* Streaming generation, reduction and the synchronous facade of the       *)
(* email generator (mlflow_demo/agent/email_generator.py) and the SSE      *)
(* route that serves it (server/routes/email.py).                          *)
(*                                                                         *)
(* Text is a sequence of lexemes (one-character strings, the word json,    *)
(* JSON string literals and scalars).  Every Python str value is such a    *)
(* sequence, so concatenation is \o and '' is << >>.                       *)
(***************************************************************************)
EXTENDS Integers, Sequences, FiniteSets, TLC

\* ------------------------------------------------------------------ bounds
\* longest chunk list handed to the reducer on its own
MaxChunks == 3
\* most content-bearing chunks the model endpoint streams in one response
MaxTokens == 3

\* ------------------------------------------------------------ Python values
None == <<"<None>">>
Truthy(v) == v # None /\ v # << >>

\* ------------------------------------------------------------------- text
Whitespace == {" ", "\n"}

RECURSIVE lstrip(_)
lstrip(s) == IF s # << >> /\ Head(s) \in Whitespace THEN lstrip(Tail(s)) ELSE s

RECURSIVE rstrip(_)
rstrip(s) ==
  IF s # << >> /\ s[Len(s)] \in Whitespace THEN rstrip(SubSeq(s, 1, Len(s) - 1)) ELSE s

strip(s) == rstrip(lstrip(s))

startswith(s, p) == Len(s) >= Len(p) /\ SubSeq(s, 1, Len(p)) = p
endswith(s, p) == Len(s) >= Len(p) /\ SubSeq(s, Len(s) - Len(p) + 1, Len(s)) = p

\* s[a:-b] for a, b > 0
Slice(s, a, b) == SubSeq(s, a + 1, Len(s) - b)

\* the backquote character (a backquote cannot be written inside a TLA+ string)
BQ == "bq"

FenceJson == <<BQ, BQ, BQ, "json", "\n">>
FenceEnd == <<"\n", BQ, BQ, BQ>>
Fence == <<BQ, BQ, BQ>>

Last(seq) == seq[Len(seq)]

\* --------------------------------------------------------------- json.loads
StrLex == {"\"subject_line\"", "\"body\"", "\"Hi\"", "\"Bye\""}
NumLex == {"1"}

PyStr(l) ==
  CASE l = "\"subject_line\"" -> <<"subject_line">>
    [] l = "\"body\"" -> <<"body">>
    [] l = "\"Hi\"" -> <<"Hi">>
    [] l = "\"Bye\"" -> <<"Bye">>

JsonOk(next, kind, py, members) ==
  [ok |-> TRUE, next |-> next, kind |-> kind, py |-> py, members |-> members, msg |-> ""]

JsonErr(msg, pos) ==
  [ok |-> FALSE, next |-> pos, kind |-> "JSONDecodeError", py |-> << >>,
   members |-> << >>, msg |-> msg]

RECURSIVE SkipWs(_, _)
SkipWs(s, i) == IF i <= Len(s) /\ s[i] \in Whitespace THEN SkipWs(s, i + 1) ELSE i

At(s, i) == IF i <= Len(s) THEN s[i] ELSE ""

RECURSIVE ParseValue(_, _)
RECURSIVE ParseItems(_, _)
RECURSIVE ParseMembers(_, _, _)

ParseItems(s, i) ==
  LET v == ParseValue(s, i)
      j == SkipWs(s, v.next)
  IN IF ~v.ok THEN v
     ELSE IF At(s, j) = "]" THEN JsonOk(j + 1, "list", <<"<list>">>, << >>)
     ELSE IF At(s, j) # "," THEN JsonErr("Expecting ',' delimiter", j)
     ELSE ParseItems(s, SkipWs(s, j + 1))

ParseMembers(s, i, acc) ==
  IF At(s, i) \notin StrLex
  THEN JsonErr("Expecting property name enclosed in double quotes", i)
  ELSE LET j == SkipWs(s, i + 1) IN
    IF At(s, j) # ":" THEN JsonErr("Expecting ':' delimiter", j)
    ELSE LET v == ParseValue(s, SkipWs(s, j + 1))
             m == SkipWs(s, v.next)
             acc2 == Append(acc, <<PyStr(s[i]), v.py>>)
         IN IF ~v.ok THEN v
            ELSE IF At(s, m) = "}" THEN JsonOk(m + 1, "dict", <<"<dict>">>, acc2)
            ELSE IF At(s, m) # "," THEN JsonErr("Expecting ',' delimiter", m)
            ELSE ParseMembers(s, SkipWs(s, m + 1), acc2)

ParseValue(s, i) ==
  LET c == At(s, i) IN
  IF c \in StrLex THEN JsonOk(i + 1, "str", PyStr(c), << >>)
  ELSE IF c \in NumLex THEN JsonOk(i + 1, "int", <<"int", c>>, << >>)
  ELSE IF c = "null" THEN JsonOk(i + 1, "NoneType", None, << >>)
  ELSE IF c = "[" THEN
    LET j == SkipWs(s, i + 1) IN
    IF At(s, j) = "]" THEN JsonOk(j + 1, "list", <<"<list>">>, << >>)
    ELSE ParseItems(s, j)
  ELSE IF c = "{" THEN
    LET j == SkipWs(s, i + 1) IN
    IF At(s, j) = "}" THEN JsonOk(j + 1, "dict", <<"<dict>">>, << >>)
    ELSE ParseMembers(s, j, << >>)
  ELSE JsonErr("Expecting value", i)

json_loads(s) ==
  LET v == ParseValue(s, SkipWs(s, 1))
      e == SkipWs(s, v.next)
  IN IF ~v.ok THEN v
     ELSE IF e <= Len(s) THEN JsonErr("Extra data", e)
     ELSE v

\* str(e) of a JSONDecodeError: the message and the (0-based) position
StrOfJsonError(j) == <<j.msg, ToString(j.next - 1)>>

\* dict.get(key, default): the last member of that key wins
RECURSIVE DictGet(_, _, _)
DictGet(members, key, default) ==
  IF members = << >> THEN default
  ELSE IF members[Len(members)][1] = key THEN members[Len(members)][2]
  ELSE DictGet(SubSeq(members, 1, Len(members) - 1), key, default)

DictHas(members, key) == \E i \in 1..Len(members) : members[i][1] = key

\* --------------------------------------------------------------- cleaning
\* faulty variant: a leading fence marker is enough for the fences to be cut off
CleanOnLeadingFenceOnly(response_content) ==
  strip(IF startswith(response_content, FenceJson)
        THEN Slice(response_content, Len(FenceJson), Len(FenceEnd))
        ELSE IF startswith(response_content, Fence)
        THEN Slice(response_content, 3, 3)
        ELSE response_content)

_clean_json_response(response_content) ==
  strip(IF startswith(response_content, FenceJson) /\ endswith(response_content, FenceEnd)
        THEN Slice(response_content, Len(FenceJson), Len(FenceEnd))
        ELSE IF startswith(response_content, Fence) /\ endswith(response_content, Fence)
        THEN Slice(response_content, 3, 3)
        ELSE response_content)

\* the reducer's inline copy: strips before looking for the fences
InlineClean(email_content) ==
  LET clean_string == strip(email_content) IN
  strip(IF startswith(clean_string, FenceJson) /\ endswith(clean_string, FenceEnd)
        THEN Slice(clean_string, Len(FenceJson), Len(FenceEnd))
        ELSE IF startswith(clean_string, Fence) /\ endswith(clean_string, Fence)
        THEN Slice(clean_string, 3, 3)
        ELSE clean_string)

\* ----------------------------------------------------------------- chunks
TokenChunk(content) ==
  [type |-> "token", content |-> content, trace_id |-> None, error |-> None]
DoneChunk(trace_id) ==
  [type |-> "done", content |-> << >>, trace_id |-> trace_id, error |-> None]
ErrorChunk(error) ==
  [type |-> "error", content |-> << >>, trace_id |-> None, error |-> error]

\* ---------------------------------------------------------------- reducer
RECURSIVE CollectChunks(_, _)
\* faulty variant: a token chunk replaces the text collected so far
CollectChunksLastTokenOnly(chunks, acc) ==
  IF chunks = << >> THEN acc
  ELSE LET chunk == Head(chunks) IN
    CollectChunks(Tail(chunks),
      CASE chunk.type = "token" -> [acc EXCEPT !.email_content = chunk.content]
        [] chunk.type = "done" -> [acc EXCEPT !.trace_id = chunk.trace_id]
        [] chunk.type = "error" -> [acc EXCEPT !.error_message = chunk.error]
        [] OTHER -> acc)

CollectChunks(chunks, acc) ==
  IF chunks = << >> THEN acc
  ELSE LET chunk == Head(chunks) IN
    CollectChunks(Tail(chunks),
      CASE chunk.type = "token" -> [acc EXCEPT !.email_content = @ \o chunk.content]
        [] chunk.type = "done" -> [acc EXCEPT !.trace_id = chunk.trace_id]
        [] chunk.type = "error" -> [acc EXCEPT !.error_message = chunk.error]
        [] OTHER -> acc)

Returned(subject, body, has_trace_id, trace_id) ==
  [exc |-> "none", email_subject |-> subject, email_body |-> body,
   has_trace_id |-> has_trace_id, trace_id |-> trace_id]

Raised(exc) ==
  [exc |-> exc, email_subject |-> None, email_body |-> None,
   has_trace_id |-> FALSE, trace_id |-> None]

FailedSubject == <<"Email generation failed">>

\* faulty variant: the fallback result prefers the ambient trace id to the done chunk's
ReducerAmbientFirst(chunks, ambient) ==
  LET acc == CollectChunks(chunks,
               [email_content |-> << >>, trace_id |-> None, error_message |-> None])
      email_json == json_loads(InlineClean(acc.email_content))
  IN IF email_json.ok
     THEN IF email_json.kind # "dict"
          THEN Raised("AttributeError")
          ELSE Returned(DictGet(email_json.members, <<"subject_line">>, None),
                        DictGet(email_json.members, <<"body">>, << >>),
                        Truthy(acc.trace_id),
                        IF Truthy(acc.trace_id) THEN acc.trace_id ELSE None)
     ELSE Returned(FailedSubject,
                   IF Truthy(acc.error_message) THEN acc.error_message
                   ELSE <<"Failed to parse email: ">> \o StrOfJsonError(email_json),
                   TRUE,
                   IF Truthy(ambient) THEN ambient ELSE acc.trace_id)

\* faulty variant: an error chunk forces the fallback result even when the text parses
ReducerErrorChunkWins(chunks, ambient) ==
  LET acc == CollectChunks(chunks,
               [email_content |-> << >>, trace_id |-> None, error_message |-> None])
      email_json == json_loads(InlineClean(acc.email_content))
  IN IF email_json.ok /\ ~Truthy(acc.error_message)
     THEN IF email_json.kind # "dict"
          THEN Raised("AttributeError")
          ELSE Returned(DictGet(email_json.members, <<"subject_line">>, None),
                        DictGet(email_json.members, <<"body">>, << >>),
                        Truthy(acc.trace_id),
                        IF Truthy(acc.trace_id) THEN acc.trace_id ELSE None)
     ELSE Returned(FailedSubject,
                   IF Truthy(acc.error_message) THEN acc.error_message
                   ELSE <<"Failed to parse email: ">> \o StrOfJsonError(email_json),
                   TRUE,
                   IF Truthy(acc.trace_id) THEN acc.trace_id ELSE ambient)

\* faulty variant: the fallback result never looks the active trace up
ReducerFallbackNoLookup(chunks, ambient) ==
  LET acc == CollectChunks(chunks,
               [email_content |-> << >>, trace_id |-> None, error_message |-> None])
      email_json == json_loads(InlineClean(acc.email_content))
  IN IF email_json.ok
     THEN IF email_json.kind # "dict"
          THEN Raised("AttributeError")
          ELSE Returned(DictGet(email_json.members, <<"subject_line">>, None),
                        DictGet(email_json.members, <<"body">>, << >>),
                        Truthy(acc.trace_id),
                        IF Truthy(acc.trace_id) THEN acc.trace_id ELSE None)
     ELSE Returned(FailedSubject,
                   IF Truthy(acc.error_message) THEN acc.error_message
                   ELSE <<"Failed to parse email: ">> \o StrOfJsonError(email_json),
                   Truthy(acc.trace_id),
                   IF Truthy(acc.trace_id) THEN acc.trace_id ELSE None)

\* ambient is what _get_current_trace_id() returns at the time of the call
_stream_email_reducer_static(chunks, ambient) ==
  LET acc == CollectChunks(chunks,
               [email_content |-> << >>, trace_id |-> None, error_message |-> None])
      email_json == json_loads(InlineClean(acc.email_content))
  IN IF email_json.ok
     THEN IF email_json.kind # "dict"
          THEN Raised("AttributeError")
          ELSE Returned(DictGet(email_json.members, <<"subject_line">>, None),
                        DictGet(email_json.members, <<"body">>, << >>),
                        Truthy(acc.trace_id),
                        IF Truthy(acc.trace_id) THEN acc.trace_id ELSE None)
     ELSE Returned(FailedSubject,
                   IF Truthy(acc.error_message) THEN acc.error_message
                   ELSE <<"Failed to parse email: ">> \o StrOfJsonError(email_json),
                   TRUE,
                   IF Truthy(acc.trace_id) THEN acc.trace_id ELSE ambient)

\* ------------------------------------------------------------------ state
VARIABLES
  entry,          \* what is run: "facade", "sse", "sync", or an operation on its own
  customer_name,  \* request: customer name
  user_input,     \* request: instruction (None, '' or text)
  loop_running,   \* is an event loop running in the thread that calls the facade
  prompt,         \* self.prompt (the version loaded last)
  gen,            \* the async generator stream_generate_email_with_retrieval
  gen_exc,        \* the exception it raised
  upstream,       \* the streaming response of the model endpoint
  full_response,  \* _stream_generate_email: accumulated text
  yielded,        \* every chunk the generator has yielded, in order
  taken,          \* how many of them its consumer has received
  model_calls,    \* calls of chat.completions.create
  trace_log,      \* mlflow.update_current_trace calls, in order
  fpc,            \* generate_email_with_retrieval: position
  chunks,         \* generate_email_with_retrieval: chunks
  executor,       \* the ThreadPoolExecutor of the facade call
  worker,         \* its worker thread running run_in_thread
  worker_loop,    \* new_loop of run_in_thread
  future,         \* outcome of run_in_thread
  drained_on,     \* the contexts that have run a step of the generator
  ambient,        \* _get_current_trace_id() as seen by the facade's reducer call
  facade_exc,     \* exception raised by the facade
  facade_result,  \* record returned by the facade
  spc,            \* SSE route generate(): position
  frames,         \* SSE frames sent so far
  status,         \* POST /api/generate-email-with-retrieval/: HTTP status (0: no answer yet)
  api_detail,     \* its HTTPException detail
  rstate,         \* reducer called on its own: "input" or "reduced"
  rchunks,        \* its chunk list
  rambient,       \* _get_current_trace_id() at that call
  rresult,        \* its outcome
  customer_documents, \* _create_messages called on its own: the documents
  template,       \* self.prompt.template at that call (None: self.prompt is None)
  messages,       \* its return value (<< >>: not called yet)
  ctor_args,      \* EmailGenerator(...): the keyword arguments
  environ,        \* os.environ at that call
  cpc,            \* position in __init__
  self_config,    \* self.model, self.prompt_name, ... once read
  ctor_exc,       \* exception raised by __init__
  external_calls, \* external calls made by __init__, in order
  feedback,       \* POST /api/feedback: the request
  fb_pc,          \* position in submit_feedback
  assessments,    \* feedback stored by mlflow.log_feedback
  fb_result,      \* record returned by log_feedback
  fb_exc,         \* exception leaving log_feedback
  fb_response,    \* FeedbackResponse of the route
  clean_text,     \* a text given to the fence stripping
  method_outs,    \* _clean_json_response applied once, twice, ... to it
  inline_outs,    \* the reducer's inline cleaning applied once, twice, ... to it
  requests,       \* concurrent requests on the one generator: each request's locals
  trace,          \* a stored trace handed to the evaluation scorers
  judge_calls     \* calls of the judges made by the scorers, in order

vars == <<entry, customer_name, user_input, loop_running, prompt, gen, gen_exc, upstream,
          full_response, yielded, taken, model_calls, trace_log, fpc, chunks, executor,
          worker, worker_loop, future, drained_on, ambient, facade_exc, facade_result,
          spc, frames, status, api_detail, rstate, rchunks, rambient, rresult,
          customer_documents, template, messages,
          ctor_args, environ, cpc, self_config, ctor_exc, external_calls,
          feedback, fb_pc, assessments, fb_result, fb_exc, fb_response,
          clean_text, method_outs, inline_outs, requests, trace, judge_calls>>

genVars == <<prompt, gen, gen_exc, upstream, full_response, yielded, model_calls,
             trace_log, drained_on>>
facadeVars == <<fpc, chunks, executor, worker, worker_loop, future, ambient, facade_exc,
                facade_result>>
sseVars == <<spc, frames>>
apiVars == <<status, api_detail>>
requestVars == <<entry, customer_name, user_input, loop_running>>
reducerVars == <<rstate, rchunks, rambient, rresult>>
messageVars == <<customer_documents, template, messages>>
ctorVars == <<ctor_args, environ, cpc, self_config, ctor_exc, external_calls>>
feedbackVars == <<feedback, fb_pc, assessments, fb_result, fb_exc, fb_response>>
cleanVars == <<clean_text, method_outs, inline_outs>>
concurrentVars == <<requests>>
evalVars == <<trace, judge_calls>>
sideVars == <<messageVars, ctorVars, feedbackVars, cleanVars, concurrentVars, evalVars>>
\* everything of a served request
servingVars == <<taken, requestVars, genVars, facadeVars, sseVars, apiVars, reducerVars>>

\* ----------------------------------------------------------------- inputs
\* account names of mlflow_demo/data/input_data.jsonl, and one that is not in it
Customers == {"EcomSolutions LLC"}
CustomerNames == Customers \cup {"Nobody Inc"}
UserInputs == {None, << >>, <<" ">>, <<"Keep it brief">>}
PromptVersions == {1, 2}
\* trace id of the active span: none when tracing is off
TraceIds == {None, <<"tr-1">>}
AmbientIds == {None, <<"tr-outer">>}

Obj == <<"{", "\"subject_line\"", ":", "\"Hi\"", ",", "\"body\"", ":", "\"Bye\"", "}">>
ObjNoBody == <<"{", "\"subject_line\"", ":", "\"Hi\"", "}">>
ObjNoSubject == <<"{", "\"body\"", ":", "\"Bye\"", "}">>
List == <<"[", "]">>
Junk == <<"Sorry">>

\* contents of the content-bearing chunks the endpoint can stream
TokenContents == {Obj, ObjNoBody, ObjNoSubject, List, Junk, FenceJson, FenceEnd}

\* an exception: its class and str(e), the message as a sequence of words
Exc(type, msg) == [type |-> type, msg |-> msg]
NoExc == Exc("none", << >>)

\* needle in text, for texts that are sequences of words
Contains(text, needle) ==
  \E i \in 0..(Len(text) - Len(needle)) : SubSeq(text, i + 1, i + Len(needle)) = needle

\* failures of the endpoint (openai / httpx); httpx.StreamClosed is a RuntimeError
UpstreamErrors ==
  {Exc("APIConnectionError", <<"Connection", "error.">>),
   Exc("RuntimeError", <<"Attempted", "to", "read", "or", "stream", "content,", "but", "the",
                         "stream", "has", "been", "closed.">>)}

IsRuntimeError(e) == e.type = "RuntimeError"

AsyncioRunError ==
  Exc("RuntimeError", <<"asyncio.run()", "cannot", "be", "called", "from", "a", "running",
                        "event", "loop">>)

\* ---------------------------------------------------------- _create_messages
\* str.title() on a text of characters: a letter is upper-cased when it does
\* not follow a letter, lower-cased when it does
LowerCase == <<"a", "b", "c", "d", "e", "f", "g", "h", "i", "j", "k", "l", "m",
               "n", "o", "p", "q", "r", "s", "t", "u", "v", "w", "x", "y", "z">>
UpperCase == <<"A", "B", "C", "D", "E", "F", "G", "H", "I", "J", "K", "L", "M",
               "N", "O", "P", "Q", "R", "S", "T", "U", "V", "W", "X", "Y", "Z">>
IsLetter(c) == \E i \in 1..26 : c \in {LowerCase[i], UpperCase[i]}
upper(c) == IF \E i \in 1..26 : LowerCase[i] = c
            THEN UpperCase[CHOOSE i \in 1..26 : LowerCase[i] = c] ELSE c
lower(c) == IF \E i \in 1..26 : UpperCase[i] = c
            THEN LowerCase[CHOOSE i \in 1..26 : UpperCase[i] = c] ELSE c
title(s) ==
  [i \in 1..Len(s) |-> IF i > 1 /\ IsLetter(s[i - 1]) THEN lower(s[i]) ELSE upper(s[i])]

\* str.replace('_', ' ')
replace_underscore(s) == [i \in 1..Len(s) |-> IF s[i] = "_" THEN " " ELSE s[i]]

\* sep.join(items)
RECURSIVE join(_, _)
join(sep, items) ==
  IF items = << >> THEN << >>
  ELSE IF Len(items) = 1 THEN items[1]
  ELSE items[1] \o sep \o join(sep, Tail(items))

Document(type, page_content) == [type |-> type, page_content |-> page_content]

\* the heading and markdown of one document
Section(doc) == title(replace_underscore(doc.type)) \o <<":", "\n">> \o doc.page_content

customer_info(docs) == join(<<"\n", "\n">>, [i \in 1..Len(docs) |-> Section(docs[i])])

UserInstructions(input) == <<"\n", "\n", "User Instructions:", "\n">> \o input

Message(role, content) == [role |-> role, content |-> content]

\* faulty variant: the instruction section is appended whenever user_input is not None
CreateMessagesIfNotNone(docs, input, prompt_template) ==
  <<Message("system", IF prompt_template # None THEN prompt_template ELSE << >>),
    Message("user", IF input # None
                    THEN customer_info(docs) \o UserInstructions(input)
                    ELSE customer_info(docs))>>

_create_messages(docs, input, prompt_template) ==
  <<Message("system", IF prompt_template # None THEN prompt_template ELSE << >>),
    Message("user", IF Truthy(input)
                    THEN customer_info(docs) \o UserInstructions(input)
                    ELSE customer_info(docs))>>

\* the documents _retrieve_customer_data returns for a customer of the data file
RetrievedDocuments(name) ==
  <<Document(<<"a", "c", "c", "o", "u", "n", "t">>, <<"**Name**: ", name>>),
    Document(<<"s", "u", "p", "p", "o", "r", "t", "_", "t", "i", "c", "k", "e", "t", "s">>,
             <<"- T-1: open">>)>>

\* self.prompt.template of a loaded prompt version
TemplateOf(version) == <<"You write emails. Reply with JSON. v", ToString(version)>>

\* --------------------------------------------------------------- producer
GenOver == gen \in {"finished", "raised"} /\ taken = Len(yielded)

\* the context that is pulling the generator right now
Driving == worker = "running" \/ fpc = "asyncio_run" \/ spc = "iterating"
Context ==
  IF worker = "running" THEN "worker_loop"
  ELSE IF fpc = "asyncio_run" THEN "asyncio_run_loop"
  ELSE "server_loop"

\* the generator runs only while its consumer awaits the next chunk
Resumable == Driving /\ taken = Len(yielded)

NotFound(name) ==
  Exc("ValueError", <<"Customer", name, "not", "found", "in", "data", "file">>)
FileMissing ==
  Exc("FileNotFoundError",
      <<"Customer", "data", "file", "not", "found", "at", "mlflow_demo/data/input_data.jsonl">>)
\* the registry's own message, whatever it is
PromptMissing == Exc("MlflowException", <<"RESOURCE_DOES_NOT_EXIST:", "prompt">>)

GenRaise(e) ==
  /\ gen' = "raised"
  /\ gen_exc' = e

\* first __anext__: _load_prompt fails
LoadPromptFails ==
  /\ gen = "created" /\ Resumable
  /\ GenRaise(PromptMissing)
  /\ drained_on' = drained_on \cup {Context}
  /\ UNCHANGED <<prompt, upstream, full_response, yielded, model_calls, trace_log>>
  /\ UNCHANGED <<taken, requestVars, facadeVars, sseVars, reducerVars, apiVars, sideVars>>

\* first __anext__: _load_prompt, then _retrieve_customer_data raises
RetrieveFails ==
  /\ gen = "created" /\ Resumable
  /\ \E v \in PromptVersions : prompt' = v
  /\ \E file_present \in BOOLEAN :
       /\ file_present => customer_name \notin Customers
       /\ GenRaise(IF file_present THEN NotFound(customer_name) ELSE FileMissing)
  /\ drained_on' = drained_on \cup {Context}
  /\ UNCHANGED <<upstream, full_response, yielded, model_calls, trace_log>>
  /\ UNCHANGED <<taken, requestVars, facadeVars, sseVars, reducerVars, apiVars, sideVars>>

\* faulty variant: the model is called without looking the customer up first
ModelCallBeforeLookup ==
  /\ gen = "created" /\ Resumable
  /\ \E v \in PromptVersions : prompt' = v
  /\ customer_documents' = RetrievedDocuments(customer_name)
  /\ template' = TemplateOf(prompt')
  /\ messages' = _create_messages(customer_documents', user_input, template')
  /\ model_calls' = model_calls + 1
  /\ \/ /\ gen' = "streaming"
        /\ upstream' = "open"
        /\ UNCHANGED gen_exc
     \/ /\ \E e \in UpstreamErrors : GenRaise(e)
        /\ upstream' = "failed"
  /\ drained_on' = drained_on \cup {Context}
  /\ UNCHANGED <<full_response, yielded, trace_log>>
  /\ UNCHANGED <<taken, requestVars, facadeVars, sseVars, reducerVars, apiVars>>
  /\ UNCHANGED <<ctorVars, feedbackVars, cleanVars, concurrentVars, evalVars>>

\* first __anext__: _load_prompt, _retrieve_customer_data, then the model call
ModelCall ==
  /\ gen = "created" /\ Resumable
  /\ customer_name \in Customers
  /\ \E v \in PromptVersions : prompt' = v
  /\ customer_documents' = RetrievedDocuments(customer_name)
  /\ template' = TemplateOf(prompt')
  /\ messages' = _create_messages(customer_documents', user_input, template')
  /\ model_calls' = model_calls + 1
  /\ \/ /\ gen' = "streaming"
        /\ upstream' = "open"
        /\ UNCHANGED gen_exc
     \/ /\ \E e \in UpstreamErrors : GenRaise(e)
        /\ upstream' = "failed"
  /\ drained_on' = drained_on \cup {Context}
  /\ UNCHANGED <<full_response, yielded, trace_log>>
  /\ UNCHANGED <<taken, requestVars, facadeVars, sseVars, reducerVars, apiVars>>
  /\ UNCHANGED <<ctorVars, feedbackVars, cleanVars, concurrentVars, evalVars>>

\* for chunk in response: a chunk with content
YieldToken ==
  /\ gen = "streaming" /\ Resumable
  /\ Len(yielded) < MaxTokens
  /\ \E token \in TokenContents :
       /\ full_response' = full_response \o token
       /\ yielded' = Append(yielded, TokenChunk(token))
  /\ UNCHANGED <<prompt, gen, gen_exc, upstream, model_calls, trace_log, drained_on>>
  /\ UNCHANGED <<taken, requestVars, facadeVars, sseVars, reducerVars, apiVars, sideVars>>

\* for chunk in response: the connection fails
UpstreamFails ==
  /\ gen = "streaming" /\ Resumable
  /\ \E e \in UpstreamErrors : GenRaise(e)
  /\ upstream' = "failed"
  /\ UNCHANGED <<prompt, full_response, yielded, model_calls, trace_log, drained_on>>
  /\ UNCHANGED <<taken, requestVars, facadeVars, sseVars, reducerVars, apiVars, sideVars>>

\* faulty variant: the tag is 'no' only for a missing instruction
TagsUpdateNoOnlyForNone ==
  [tags |-> IF user_input = None THEN "no" ELSE "yes",
   request_preview |-> None, response_preview |-> None, after |-> Len(yielded)]

TagsUpdate ==
  [tags |-> IF user_input = None \/ Len(user_input) = 0 THEN "no" ELSE "yes",
   request_preview |-> None, response_preview |-> None, after |-> Len(yielded)]

PreviewUpdate(email_json) ==
  [tags |-> "",
   request_preview |-> <<"Customer: ", customer_name, "; User Instructions: ">>
       \o (IF user_input = None \/ Len(user_input) = 0
           THEN <<"No instructions provided">> ELSE user_input),
   response_preview |-> DictGet(email_json.members, <<"body">>, None),
   after |-> Len(yielded)]

\* the response is exhausted: clean, parse, annotate the trace, yield the terminal chunk
ParseResponse ==
  /\ gen = "streaming" /\ Resumable
  /\ upstream' = "exhausted"
  /\ LET email_json == json_loads(_clean_json_response(full_response)) IN
     IF ~email_json.ok
     THEN /\ yielded' = Append(yielded,
               ErrorChunk(<<"Failed to parse email JSON: ">> \o StrOfJsonError(email_json)))
          /\ gen' = "terminal"
          /\ UNCHANGED <<gen_exc, trace_log>>
     ELSE IF email_json.kind # "dict"
     THEN /\ trace_log' = Append(trace_log, TagsUpdate)
          /\ GenRaise(Exc("TypeError", <<email_json.kind, "indices", "must", "be", "integers", "or",
                                         "slices,", "not", "str">>))
          /\ UNCHANGED yielded
     ELSE IF ~DictHas(email_json.members, <<"body">>)
     THEN /\ trace_log' = Append(trace_log, TagsUpdate)
          /\ GenRaise(Exc("KeyError", <<"'body'">>))
          /\ UNCHANGED yielded
     ELSE /\ trace_log' = trace_log \o <<TagsUpdate, PreviewUpdate(email_json)>>
          /\ \E id \in TraceIds : yielded' = Append(yielded, DoneChunk(id))
          /\ gen' = "terminal"
          /\ UNCHANGED gen_exc
  /\ UNCHANGED <<prompt, full_response, model_calls, drained_on>>
  /\ UNCHANGED <<taken, requestVars, facadeVars, sseVars, reducerVars, apiVars, sideVars>>

\* faulty variant: the prompt is loaded again when the generator returns
GenReturnReloadsPrompt ==
  /\ gen = "terminal" /\ Resumable
  /\ gen' = "finished"
  /\ \E v \in PromptVersions : prompt' = v
  /\ UNCHANGED <<gen_exc, upstream, full_response, yielded, model_calls,
                 trace_log, drained_on>>
  /\ UNCHANGED <<taken, requestVars, facadeVars, sseVars, reducerVars, apiVars, sideVars>>

\* resumed after the terminal chunk: the generator returns
GenReturn ==
  /\ gen = "terminal" /\ Resumable
  /\ gen' = "finished"
  /\ UNCHANGED <<prompt, gen_exc, upstream, full_response, yielded, model_calls,
                 trace_log, drained_on>>
  /\ UNCHANGED <<taken, requestVars, facadeVars, sseVars, reducerVars, apiVars, sideVars>>

\* ----------------------------------------------------- synchronous facade
\* the facade is called directly or by the route POST /api/generate-email-with-retrieval/
FacadeEntries == {"facade", "sync"}

\* asyncio.get_running_loop() succeeds: submit run_in_thread to a new executor
FacadeSubmit ==
  /\ entry \in FacadeEntries /\ fpc = "call"
  /\ loop_running
  /\ executor' = "active"
  /\ worker' = "submitted"
  /\ fpc' = "future_result"
  /\ UNCHANGED <<chunks, worker_loop, future, ambient, facade_exc, facade_result>>
  /\ UNCHANGED <<taken, requestVars, genVars, sseVars, reducerVars, apiVars, sideVars>>

\* asyncio.get_running_loop() raises RuntimeError: asyncio.run(collect_chunks())
FacadeAsyncioRun ==
  /\ entry \in FacadeEntries /\ fpc = "call"
  /\ ~loop_running
  /\ fpc' = "asyncio_run"
  /\ UNCHANGED <<chunks, executor, worker, worker_loop, future, ambient, facade_exc,
                 facade_result>>
  /\ UNCHANGED <<taken, requestVars, genVars, sseVars, reducerVars, apiVars, sideVars>>

\* run_in_thread: new_event_loop, set_event_loop, run_until_complete
run_in_thread ==
  /\ worker = "submitted"
  /\ worker' = "running"
  /\ worker_loop' = "open"
  /\ UNCHANGED <<fpc, chunks, executor, future, ambient, facade_exc, facade_result>>
  /\ UNCHANGED <<taken, requestVars, genVars, sseVars, reducerVars, apiVars, sideVars>>

\* faulty variant: each chunk replaces the list instead of being appended to it
CollectChunksKeepsLast ==
  /\ entry \in FacadeEntries /\ Driving
  /\ taken < Len(yielded)
  /\ chunks' = <<yielded[taken + 1]>>
  /\ taken' = taken + 1
  /\ UNCHANGED <<fpc, executor, worker, worker_loop, future, ambient, facade_exc,
                 facade_result>>
  /\ UNCHANGED <<requestVars, genVars, sseVars, reducerVars, apiVars, sideVars>>

\* collect_chunks: chunks.append(chunk)
collect_chunks ==
  /\ entry \in FacadeEntries /\ Driving
  /\ taken < Len(yielded)
  /\ chunks' = Append(chunks, yielded[taken + 1])
  /\ taken' = taken + 1
  /\ UNCHANGED <<fpc, executor, worker, worker_loop, future, ambient, facade_exc,
                 facade_result>>
  /\ UNCHANGED <<requestVars, genVars, sseVars, reducerVars, apiVars, sideVars>>

\* faulty variant: the worker returns without closing its loop
WorkerExitLeavesLoopOpen ==
  /\ worker = "running" /\ GenOver
  /\ worker' = "exited"
  /\ future' = IF gen = "raised" THEN gen_exc ELSE NoExc
  /\ UNCHANGED <<fpc, chunks, executor, worker_loop, ambient, facade_exc, facade_result>>
  /\ UNCHANGED <<taken, requestVars, genVars, sseVars, reducerVars, apiVars, sideVars>>

\* run_in_thread: run_until_complete is over; finally new_loop.close()
WorkerExit ==
  /\ worker = "running" /\ GenOver
  /\ worker_loop' = "closed"
  /\ worker' = "exited"
  /\ future' = IF gen = "raised" THEN gen_exc ELSE NoExc
  /\ UNCHANGED <<fpc, chunks, executor, ambient, facade_exc, facade_result>>
  /\ UNCHANGED <<taken, requestVars, genVars, sseVars, reducerVars, apiVars, sideVars>>

\* faulty variant: after a RuntimeError of the worker the producer is drained again
FutureResultDrainsAgain ==
  /\ fpc = "future_result" /\ worker = "exited"
  /\ executor' = "shutdown"
  /\ IF future = NoExc
     THEN /\ fpc' = "reduce"
          /\ UNCHANGED <<facade_exc, gen, gen_exc, upstream, yielded, taken>>
     ELSE IF IsRuntimeError(future)
     THEN /\ fpc' = "asyncio_run"
          /\ gen' = "created" /\ gen_exc' = NoExc /\ upstream' = "none"
          /\ yielded' = << >> /\ taken' = 0
          /\ UNCHANGED facade_exc
     ELSE /\ fpc' = "raised"
          /\ facade_exc' = future
          /\ UNCHANGED <<gen, gen_exc, upstream, yielded, taken>>
  /\ UNCHANGED <<chunks, worker, worker_loop, future, ambient, facade_result>>
  /\ UNCHANGED <<prompt, full_response, model_calls, trace_log, drained_on>>
  /\ UNCHANGED <<requestVars, sseVars, reducerVars, apiVars, sideVars>>

\* future.result() and the end of the with block (shutdown waits for the worker);
\* a RuntimeError of the worker is caught by `except RuntimeError`, whose
\* asyncio.run then finds the caller's loop running
FutureResult ==
  /\ fpc = "future_result" /\ worker = "exited"
  /\ executor' = "shutdown"
  /\ IF future = NoExc
     THEN fpc' = "reduce" /\ UNCHANGED facade_exc
     ELSE /\ fpc' = "raised"
          /\ facade_exc' = IF IsRuntimeError(future) THEN AsyncioRunError ELSE future
  /\ UNCHANGED <<chunks, worker, worker_loop, future, ambient, facade_result>>
  /\ UNCHANGED <<taken, requestVars, genVars, sseVars, reducerVars, apiVars, sideVars>>

\* asyncio.run(collect_chunks()) is over
AsyncioRunOver ==
  /\ fpc = "asyncio_run" /\ GenOver
  /\ IF gen = "raised"
     THEN fpc' = "raised" /\ facade_exc' = gen_exc
     ELSE fpc' = "reduce" /\ UNCHANGED facade_exc
  /\ UNCHANGED <<chunks, executor, worker, worker_loop, future, ambient, facade_result>>
  /\ UNCHANGED <<taken, requestVars, genVars, sseVars, reducerVars, apiVars, sideVars>>

\* the record the facade builds from the reducer's output
FacadeRecord(reduced_result) ==
  [subject_line |-> reduced_result.email_subject,
   body |-> reduced_result.email_body,
   trace_id |-> IF reduced_result.has_trace_id THEN reduced_result.trace_id ELSE None]

NoRecord == [subject_line |-> None, body |-> None, trace_id |-> None]

\* reduced_result = _stream_email_reducer_static(chunks); build and return result
FacadeReduce ==
  /\ fpc = "reduce"
  /\ \E id \in AmbientIds :
       LET reduced_result == _stream_email_reducer_static(chunks, id) IN
       /\ ambient' = id
       /\ IF reduced_result.exc # "none"
          THEN /\ fpc' = "raised"
               /\ facade_exc' = Exc(reduced_result.exc,
                                    <<"object", "has", "no", "attribute", "'get'">>)
               /\ UNCHANGED facade_result
          ELSE /\ fpc' = "returned"
               /\ facade_result' = FacadeRecord(reduced_result)
               /\ UNCHANGED facade_exc
  /\ UNCHANGED <<chunks, executor, worker, worker_loop, future>>
  /\ UNCHANGED <<taken, requestVars, genVars, sseVars, reducerVars, apiVars, sideVars>>

\* ---------------------------------------------------------------- SSE route
TokenFrame(chunk) ==
  [type |-> "token", content |-> chunk.content, has_trace_id |-> FALSE,
   trace_id |-> None, error |-> None]
DoneFrame(chunk) ==
  [type |-> "done", content |-> << >>, has_trace_id |-> TRUE,
   trace_id |-> chunk.trace_id, error |-> None]
ErrorFrame(error) ==
  [type |-> "error", content |-> << >>, has_trace_id |-> FALSE,
   trace_id |-> None, error |-> error]
ClosingFrame ==
  [type |-> "done", content |-> << >>, has_trace_id |-> FALSE,
   trace_id |-> None, error |-> None]

\* generate(): the async for starts
SseStart ==
  /\ entry = "sse" /\ spc = "start"
  /\ spc' = "iterating"
  /\ UNCHANGED <<frames, taken, requestVars, genVars, facadeVars, reducerVars, apiVars, sideVars>>

\* generate(): one chunk formatted as a Server-Sent Event
SseFrame ==
  /\ spc = "iterating" /\ taken < Len(yielded)
  /\ LET chunk == yielded[taken + 1] IN
     frames' = Append(frames,
       CASE chunk.type = "token" -> TokenFrame(chunk)
         [] chunk.type = "done" -> DoneFrame(chunk)
         [] chunk.type = "error" -> ErrorFrame(chunk.error))
  /\ taken' = taken + 1
  /\ UNCHANGED <<spc, requestVars, genVars, facadeVars, reducerVars, apiVars, sideVars>>

\* faulty variant: the exception ends the stream without an error frame
SseExceptSilent ==
  /\ spc = "iterating" /\ gen = "raised" /\ taken = Len(yielded)
  /\ spc' = "finally"
  /\ UNCHANGED <<frames, taken, requestVars, genVars, facadeVars, reducerVars, apiVars, sideVars>>

\* generate(): except Exception as e
SseExcept ==
  /\ spc = "iterating" /\ gen = "raised" /\ taken = Len(yielded)
  /\ frames' = Append(frames, ErrorFrame(gen_exc.msg))
  /\ spc' = "finally"
  /\ UNCHANGED <<taken, requestVars, genVars, facadeVars, reducerVars, apiVars, sideVars>>

\* faulty variant: the stream is closed without the closing done event
SseFinallyNoFrame ==
  /\ \/ spc = "iterating" /\ gen = "finished" /\ taken = Len(yielded)
     \/ spc = "finally"
  /\ spc' = "closed"
  /\ UNCHANGED <<frames, taken, requestVars, genVars, facadeVars, reducerVars, apiVars, sideVars>>

\* generate(): finally, the closing done event
SseFinally ==
  /\ \/ spc = "iterating" /\ gen = "finished" /\ taken = Len(yielded)
     \/ spc = "finally"
  /\ frames' = Append(frames, ClosingFrame)
  /\ spc' = "closed"
  /\ UNCHANGED <<taken, requestVars, genVars, facadeVars, reducerVars, apiVars, sideVars>>

\* the client goes away before the terminal chunk: generate() is not iterated any more
SseDisconnect ==
  /\ entry = "sse" /\ spc = "iterating"
  /\ gen \in {"created", "streaming"}
  /\ spc' = "disconnected"
  /\ UNCHANGED <<frames, taken, requestVars, genVars, facadeVars, reducerVars, apiVars, sideVars>>

\* the abandoned generator is finalised (aclose by the loop's asyncgen hooks):
\* GeneratorExit at the yield of line 683 leaves `for chunk in response` with no
\* finally clause and no close() in between, so whether the streaming response
\* is closed is up to the client library and the garbage collector
GeneratorFinalized ==
  /\ spc = "disconnected" /\ gen \in {"created", "streaming"}
  /\ gen' = "closed"
  /\ \E released \in BOOLEAN :
       upstream' = IF upstream = "open" /\ released THEN "closed" ELSE upstream
  /\ UNCHANGED <<prompt, gen_exc, full_response, yielded, model_calls, trace_log, drained_on>>
  /\ UNCHANGED <<taken, requestVars, facadeVars, sseVars, reducerVars, apiVars, sideVars>>

\* ------------------------------------------------- synchronous HTTP route
\* is the value a Python str (EmailOutput declares subject_line and body as str)
IsPyStr(v) == v \notin {None, <<"<list>">>, <<"<dict>">>} /\ ~(Len(v) = 2 /\ v[1] = "int")

\* str(e) of the pydantic ValidationError of EmailOutput(**email_json)
ValidationError ==
  Exc("ValidationError", <<"1", "validation", "error", "for", "EmailOutput", "Input",
                           "should", "be", "a", "valid", "string">>)

\* the except block: the status is chosen by what the message contains
StatusFor(error_msg) ==
  IF Contains(error_msg, <<"OpenAI", "client", "not", "available">>) THEN 503
  ELSE IF Contains(error_msg, <<"Failed", "to", "parse", "LLM", "output">>) THEN 500
  ELSE IF Contains(error_msg, <<"not", "found">>) THEN 404
  ELSE 500

\* api_generate_email_with_retrieval, once the facade has returned or raised
api_generate_email_with_retrieval ==
  /\ entry = "sync" /\ status = 0
  /\ fpc \in {"returned", "raised"}
  /\ LET e == IF fpc = "raised" THEN facade_exc
               ELSE IF IsPyStr(facade_result.subject_line) /\ IsPyStr(facade_result.body)
               THEN NoExc ELSE ValidationError
     IN IF e = NoExc
        THEN status' = 200 /\ api_detail' = << >>
        ELSE status' = StatusFor(e.msg) /\ api_detail' = e.msg
  /\ UNCHANGED <<taken, requestVars, genVars, facadeVars, sseVars, reducerVars, sideVars>>

\* ------------------------------------------------------- reducer on its own
ChunkAlphabet ==
  {TokenChunk(c) : c \in {<< >>, <<" ">>, Obj, ObjNoSubject, List, Junk, FenceJson, FenceEnd}}
  \cup {DoneChunk(id) : id \in {None, <<"tr-1">>, <<"tr-2">>}}
  \cup {ErrorChunk(m) : m \in {<<"Failed to parse email JSON: ", "Expecting value", "0">>,
                                <<"Connection error.">>}}

ChunkLists == UNION {[1..n -> ChunkAlphabet] : n \in 0..MaxChunks}

Reduce ==
  /\ entry = "reducer" /\ rstate = "input"
  /\ rresult' = _stream_email_reducer_static(rchunks, rambient)
  /\ rstate' = "reduced"
  /\ UNCHANGED <<rchunks, rambient, taken, requestVars, genVars, facadeVars, sseVars,
                 apiVars, sideVars>>

\* ------------------------------------------------ _create_messages on its own
MaxDocs == 2
DocTypes == {<<"a", "c", "c", "o", "u", "n", "t">>,
             <<"s", "u", "p", "p", "o", "r", "t", "_", "t", "i", "c", "k", "e", "t", "s">>,
             <<"k", "P", "I", "_", "2", "x">>}
PageContents == {<<"**Name**: EcomSolutions LLC">>, << >>}
Documents == {Document(t, c) : t \in DocTypes, c \in PageContents}
DocumentLists == UNION {[1..n -> Documents] : n \in 0..MaxDocs}
Instructions == UserInputs \cup {<<" ">>, <<"Mention", " ", "the", " ", "renewal">>}
Templates == {None, << >>, <<"You write emails. Reply with JSON.">>}

CreateMessages ==
  /\ entry = "messages" /\ messages = << >>
  /\ messages' = _create_messages(customer_documents, user_input, template)
  /\ UNCHANGED <<customer_documents, template, servingVars, concurrentVars, evalVars,
                 ctorVars, feedbackVars,
                 cleanVars>>

\* ------------------------------------------------------ EmailGenerator.__init__
Settings == {"model", "prompt_name", "prompt_alias", "uc_catalog", "uc_schema"}

\* the environment variable each setting falls back to
EnvName(k) ==
  CASE k = "model" -> "LLM_MODEL"
    [] k = "prompt_name" -> "PROMPT_NAME"
    [] k = "prompt_alias" -> "PROMPT_ALIAS"
    [] k = "uc_catalog" -> "UC_CATALOG"
    [] k = "uc_schema" -> "UC_SCHEMA"
EnvNames == {EnvName(k) : k \in Settings}

\* Python's  a or b
Or(a, b) == IF Truthy(a) THEN a ELSE b

NoConfig == [k \in Settings |-> None]

\* faulty variant: only the model endpoint is validated
ReadConfigModelOnly ==
  /\ entry = "construct" /\ cpc = "new"
  /\ LET cfg == [k \in Settings |-> Or(ctor_args[k], environ[EnvName(k)])] IN
       /\ self_config' = cfg
       /\ IF ~Truthy(cfg["model"])
          THEN /\ cpc' = "raised"
               /\ ctor_exc' = Exc("ValueError",
                    <<"LLM_MODEL", "environment", "variable", "is", "not", "set",
                      "and", "no", "model", "provided">>)
          ELSE cpc' = "validated" /\ UNCHANGED ctor_exc
  /\ UNCHANGED <<ctor_args, environ, external_calls>>
  /\ UNCHANGED <<servingVars, concurrentVars, evalVars, messageVars, feedbackVars, cleanVars>>

\* lines 155-170: read the configuration and validate it
ReadConfig ==
  /\ entry = "construct" /\ cpc = "new"
  /\ LET cfg == [k \in Settings |-> Or(ctor_args[k], environ[EnvName(k)])] IN
       /\ self_config' = cfg
       /\ IF ~Truthy(cfg["model"])
          THEN /\ cpc' = "raised"
               /\ ctor_exc' = Exc("ValueError",
                    <<"LLM_MODEL", "environment", "variable", "is", "not", "set",
                      "and", "no", "model", "provided">>)
          ELSE IF \E k \in Settings \ {"model"} : ~Truthy(cfg[k])
          THEN /\ cpc' = "raised"
               /\ ctor_exc' = Exc("Exception",
                    <<"PROMPT_NAME,", "PROMPT_ALIAS,", "UC_CATALOG,", "and", "UC_SCHEMA",
                      "environment", "variables", "must", "be", "set", "or", "provided">>)
          ELSE cpc' = "validated" /\ UNCHANGED ctor_exc
  /\ UNCHANGED <<ctor_args, environ, external_calls>>
  /\ UNCHANGED <<servingVars, concurrentVars, evalVars, messageVars, feedbackVars, cleanVars>>

\* an external call of __init__: it returns, or raises and ends the construction
ExternalCall(at, call, then, e) ==
  /\ entry = "construct" /\ cpc = at
  /\ external_calls' = Append(external_calls, call)
  /\ \/ cpc' = then /\ UNCHANGED ctor_exc
     \/ cpc' = "raised" /\ ctor_exc' = e
  /\ UNCHANGED <<ctor_args, environ, self_config>>
  /\ UNCHANGED <<servingVars, concurrentVars, evalVars, messageVars, feedbackVars, cleanVars>>

\* line 173: mlflow.openai.autolog()
Autolog ==
  ExternalCall("validated", "autolog", "autologged",
               Exc("MlflowException", <<"autolog", "failed">>))

\* lines 176-177: WorkspaceClient() and its OpenAI client
CreateClient ==
  ExternalCall("autologged", "WorkspaceClient", "client",
               Exc("ValueError", <<"default", "auth:", "cannot", "configure", "default",
                                   "credentials">>))

\* line 180: self._load_prompt()
LoadPrompt == ExternalCall("client", "load_prompt", "ready", PromptMissing)

ArgValues == {None, <<"arg">>}
EnvValues == {None, << >>, <<"env">>}

\* ---------------------------------------------- fence stripping on its own
MaxPieces == 3
MaxApplications == 2
MaxRequests == 2

Pieces == {<<" ">>, <<"\n">>, Fence, FenceJson, FenceEnd, Obj, Junk,
           FenceJson \o Obj \o FenceEnd, Fence \o Junk \o Fence}

RECURSIVE Concat(_)
Concat(ps) == IF ps = << >> THEN << >> ELSE Head(ps) \o Concat(Tail(ps))

Texts == {Concat(ps) : ps \in UNION {[1..n -> Pieces] : n \in 0..MaxPieces}}

\* both cleaners applied to the text, or to their own previous output
Clean ==
  /\ entry = "clean" /\ Len(method_outs) < MaxApplications
  /\ LET first == method_outs = << >> IN
       /\ method_outs' = Append(method_outs,
            _clean_json_response(IF first THEN clean_text ELSE Last(method_outs)))
       /\ inline_outs' = Append(inline_outs,
            InlineClean(IF first THEN clean_text ELSE Last(inline_outs)))
  /\ UNCHANGED clean_text
  /\ UNCHANGED <<servingVars, concurrentVars, evalVars, messageVars, ctorVars, feedbackVars>>

\* ------------------------------------- concurrent requests on one generator
\* Streaming requests run on the event loop and are suspended only at a yield;
\* a synchronous request drains the producer on a thread of its own, whose steps
\* may fall anywhere between the steps of the others.
Requests == 1..MaxRequests

RequestKinds == {"sse", "sync"}

\* the requests name accounts of the data file; the second name stands for any
\* account other than the first
CustomerOf(r) == IF r % 2 = 1 THEN "EcomSolutions LLC" ELSE "Acme Corp"
InstructionOf(r) == IF r % 2 = 1 THEN None ELSE <<"Keep it brief">>

\* what the endpoint streams in answer to request r: its own object, cut into
\* two tokens at a place of its own
BodyLexOf(r) == IF r % 2 = 1 THEN "\"Hi\"" ELSE "\"Bye\""
ObjectOf(r) == <<"{", "\"body\"", ":", BodyLexOf(r), "}">>
CutOf(r) == ((r - 1) % 4) + 1
ModelOutput(r) ==
  <<SubSeq(ObjectOf(r), 1, CutOf(r)), SubSeq(ObjectOf(r), CutOf(r) + 1, Len(ObjectOf(r)))>>

\* the locals of one request: the call's arguments, messages and full_response
\* of _stream_generate_email, the chunk list of its consumer, the reducer's result
Request(kind, pc, request_messages, request_full_response, request_chunks, result) ==
  [kind |-> kind, pc |-> pc, messages |-> request_messages,
   full_response |-> request_full_response, chunks |-> request_chunks, result |-> result]

\* what a step of a request leaves alone
ConcurrentFrame ==
  /\ UNCHANGED <<gen, gen_exc, upstream, full_response, yielded, model_calls,
                 trace_log, drained_on>>
  /\ UNCHANGED <<taken, requestVars, facadeVars, sseVars, apiVars, reducerVars>>
  /\ UNCHANGED <<messageVars, ctorVars, feedbackVars, cleanVars, evalVars>>

\* self._load_prompt() of a synchronous request, on its thread
ConcurrentLoadPrompt(r) ==
  /\ entry = "concurrent" /\ ConcurrentFrame
  /\ requests[r].kind = "sync" /\ requests[r].pc = "start"
  /\ \E v \in PromptVersions : prompt' = v
  /\ requests' = [requests EXCEPT ![r].pc = "loaded"]

\* up to the model call: the customer lookup, the messages, full_response = '';
\* a streaming request loads the prompt in the same step
ConcurrentModelCall(r) ==
  /\ entry = "concurrent" /\ ConcurrentFrame
  /\ \/ requests[r].kind = "sync" /\ requests[r].pc = "loaded" /\ prompt' = prompt
     \/ requests[r].kind = "sse" /\ requests[r].pc = "start"
          /\ \E v \in PromptVersions : prompt' = v
  /\ requests' = [requests EXCEPT
       ![r].pc = "streaming",
       ![r].messages = _create_messages(RetrievedDocuments(CustomerOf(r)),
                                        InstructionOf(r), TemplateOf(prompt')),
       ![r].full_response = << >>]

\* faulty variant: the token goes to the buffer and chunk list of every request
ConcurrentYieldTokenSharedBuffer(r) ==
  /\ entry = "concurrent" /\ ConcurrentFrame
  /\ requests[r].pc = "streaming"
  /\ Len(requests[r].chunks) < Len(ModelOutput(r))
  /\ LET content == ModelOutput(r)[Len(requests[r].chunks) + 1] IN
       requests' = [q \in DOMAIN requests |->
         IF requests[q].pc = "streaming"
         THEN [requests[q] EXCEPT !.full_response = @ \o content,
                                   !.chunks = Append(@, TokenChunk(content))]
         ELSE requests[q]]
  /\ UNCHANGED prompt

\* one turn of the loop over the response: the token is added to full_response
\* and yielded, and the consumer appends it to its chunk list
ConcurrentYieldToken(r) ==
  /\ entry = "concurrent" /\ ConcurrentFrame
  /\ requests[r].pc = "streaming"
  /\ Len(requests[r].chunks) < Len(ModelOutput(r))
  /\ LET content == ModelOutput(r)[Len(requests[r].chunks) + 1] IN
       requests' = [requests EXCEPT
         ![r].full_response = @ \o content,
         ![r].chunks = Append(@, TokenChunk(content))]
  /\ UNCHANGED prompt

\* after the last token: cleaning, json.loads and the terminal chunk
ConcurrentParseResponse(r) ==
  /\ entry = "concurrent" /\ ConcurrentFrame
  /\ requests[r].pc = "streaming"
  /\ Len(requests[r].chunks) = Len(ModelOutput(r))
  /\ LET email_json == json_loads(_clean_json_response(requests[r].full_response)) IN
       IF ~email_json.ok
       THEN requests' = [requests EXCEPT
              ![r].pc = "terminal",
              ![r].chunks = Append(@, ErrorChunk(<<"Failed to parse email JSON: ">>
                                                   \o StrOfJsonError(email_json)))]
       ELSE IF email_json.kind # "dict" \/ ~DictHas(email_json.members, <<"body">>)
       THEN requests' = [requests EXCEPT ![r].pc = "raised"]
       ELSE \E id \in TraceIds :
              requests' = [requests EXCEPT
                ![r].pc = "terminal", ![r].chunks = Append(@, DoneChunk(id))]
  /\ UNCHANGED prompt

\* the reducer on the request's chunk list (the facade's call, or the call of
\* the trace decorator when a streaming request has been drained)
ConcurrentReduce(r) ==
  /\ entry = "concurrent" /\ ConcurrentFrame
  /\ requests[r].pc = "terminal"
  /\ requests' = [requests EXCEPT
       ![r].pc = "done",
       ![r].result = _stream_email_reducer_static(requests[r].chunks, None)]
  /\ UNCHANGED prompt

\* ------------------------------------------------------- evaluation scorers
\* a stored trace: the request of the traced call and its response
Trace(request_user_input, response) ==
  [user_input |-> request_user_input, response |-> response]
NoTrace == Trace(None, << >>)

\* trace.data.response: the JSON object of the traced call's output, which for
\* stream_generate_email_with_retrieval is the result of its output_reducer
ResponseOf(result) ==
  <<  <<(<<"email_subject">>), result.email_subject>>,
      <<(<<"email_body">>), result.email_body>>  >>
  \o (IF result.has_trace_id THEN << <<(<<"trace_id">>), result.trace_id>> >> ELSE << >>)

\* the chunk lists of complete producer runs: tokens, then one terminal chunk
TracedRuns ==
  {cs \in ChunkLists :
     /\ cs # << >> /\ Last(cs).type \in {"done", "error"}
     /\ \A i \in 1..(Len(cs) - 1) : cs[i].type = "token"}

\* traces with status OK of requests made with the instruction ui
StoredTraces(ui) ==
  {Trace(ui, ResponseOf(_stream_email_reducer_static(x[1], x[2]))) :
     x \in {y \in TracedRuns \X AmbientIds :
              _stream_email_reducer_static(y[1], y[2]).exc = "none"}}

\* one call of a judge by a scorer
JudgeCall(scorer, judge, request, email, judged_user_input) ==
  [scorer |-> scorer, judge |-> judge, request |-> request, email |-> email,
   user_input |-> judged_user_input]

GroundedRequestPlain == <<"Generate an email based on the provided context.">>
GroundedRequestWith(instruction) ==
  <<"Generate an email based on the provided context, considering the user's request: ">>
  \o instruction

accuracy(t) ==
  LET outputs == t.response
      email_body == DictGet(outputs, <<"email_body">>, None)
      output_user_input == DictGet(outputs, <<"user_input">>, None)
  IN JudgeCall("accuracy", "meets_guidelines", None, email_body, output_user_input)

personalized(t) ==
  LET outputs == t.response
      email_body == DictGet(outputs, <<"email_body">>, None)
      output_user_input == DictGet(outputs, <<"user_input">>, None)
  IN JudgeCall("personalized", "meets_guidelines", None, email_body, output_user_input)

relevance(t) ==
  LET outputs == t.response
      email_body == DictGet(outputs, <<"email_body">>, None)
      output_user_input == DictGet(outputs, <<"user_input">>, None)
  IN JudgeCall("relevance", "meets_guidelines", None, email_body, output_user_input)

email_is_grounded(t) ==
  LET outputs == t.response
      email_body == DictGet(outputs, <<"email_body">>, None)
      output_user_input == DictGet(outputs, <<"user_input">>, None)
      request == IF output_user_input = None \/ Len(output_user_input) = 0
                 THEN GroundedRequestPlain
                 ELSE GroundedRequestWith(output_user_input)
  IN JudgeCall("email_is_grounded", "is_grounded", request, email_body, None)

SCORERS == {"accuracy", "personalized", "relevance", "email_is_grounded"}

ScorerCall(scorer, t) ==
  CASE scorer = "accuracy" -> accuracy(t)
    [] scorer = "personalized" -> personalized(t)
    [] scorer = "relevance" -> relevance(t)
    [] scorer = "email_is_grounded" -> email_is_grounded(t)

\* mlflow.genai.evaluate runs each scorer once on the trace
RunScorer ==
  /\ entry = "evaluate" /\ trace # NoTrace
  /\ \E scorer \in SCORERS :
       /\ \A i \in 1..Len(judge_calls) : judge_calls[i].scorer # scorer
       /\ judge_calls' = Append(judge_calls, ScorerCall(scorer, trace))
  /\ UNCHANGED trace
  /\ UNCHANGED <<servingVars, concurrentVars, messageVars, ctorVars, feedbackVars, cleanVars>>

\* ------------------------------------------------------------ POST /api/feedback
FeedbackRequest(trace_id, rating, comment, sales_rep_name) ==
  [trace_id |-> trace_id, rating |-> rating, comment |-> comment,
   sales_rep_name |-> sales_rep_name]
NoFeedback == FeedbackRequest(None, "none", None, None)

Result(success, message) == [success |-> success, message |-> message]
NoResult == Result(FALSE, None)

\* what mlflow.log_feedback can raise
FeedbackErrors ==
  {Exc("MlflowException", <<"Trace", "with", "ID", "not", "found.">>),
   Exc("ConnectionError", <<"Connection", "refused">>)}

\* the assessment handed to mlflow.log_feedback
Assessment(trace_id, value, comment, user_name) ==
  [trace_id |-> trace_id, name |-> "user_feedback", value |-> value,
   rationale |-> IF Truthy(comment) THEN comment ELSE None,
   source_type |-> "HUMAN", source_id |-> Or(user_name, <<"user">>)]

\* faulty variant: a connection error is not caught
LogFeedbackLetsConnectionErrorOut ==
  /\ entry = "feedback" /\ fb_pc = "request"
  /\ LET is_positive == feedback.rating = "up" IN
     \/ /\ assessments' = Append(assessments,
              Assessment(feedback.trace_id, is_positive, feedback.comment,
                         feedback.sales_rep_name))
        /\ fb_result' = Result(TRUE, <<"Feedback submitted successfully">>)
        /\ fb_pc' = "logged"
        /\ UNCHANGED fb_exc
     \/ \E e \in FeedbackErrors :
          IF e.type = "ConnectionError"
          THEN /\ fb_exc' = e /\ fb_pc' = "raised"
               /\ UNCHANGED <<fb_result, assessments>>
          ELSE /\ fb_result' = Result(FALSE, <<"Error submitting feedback: ">> \o e.msg)
               /\ fb_pc' = "logged"
               /\ UNCHANGED <<assessments, fb_exc>>
  /\ UNCHANGED <<feedback, fb_response>>
  /\ UNCHANGED <<servingVars, concurrentVars, evalVars, messageVars, ctorVars, cleanVars>>

\* submit_feedback up to the return of email_generator.log_feedback(...)
log_feedback ==
  /\ entry = "feedback" /\ fb_pc = "request"
  /\ LET is_positive == feedback.rating = "up" IN
     \/ /\ assessments' = Append(assessments,
              Assessment(feedback.trace_id, is_positive, feedback.comment,
                         feedback.sales_rep_name))
        /\ fb_result' = Result(TRUE, <<"Feedback submitted successfully">>)
     \/ \E e \in FeedbackErrors :
          /\ fb_result' = Result(FALSE, <<"Error submitting feedback: ">> \o e.msg)
          /\ UNCHANGED assessments
  /\ fb_pc' = "logged"
  /\ UNCHANGED <<feedback, fb_exc, fb_response>>
  /\ UNCHANGED <<servingVars, concurrentVars, evalVars, messageVars, ctorVars, cleanVars>>

\* return FeedbackResponse(success=result['success'], message=result['message'])
submit_feedback ==
  /\ entry = "feedback" /\ fb_pc = "logged"
  /\ fb_response' = Result(fb_result.success, fb_result.message)
  /\ fb_pc' = "answered"
  /\ UNCHANGED <<feedback, assessments, fb_result, fb_exc>>
  /\ UNCHANGED <<servingVars, concurrentVars, evalVars, messageVars, ctorVars, cleanVars>>

FeedbackRequests ==
  {FeedbackRequest(t, r, c, n) :
     t \in {<< >>, <<"tr-1">>, <<"tr-unknown">>}, r \in {"up", "down"},
     c \in {None, << >>, <<"Great", " ", "email">>}, n \in {None, << >>, <<"rep1">>}}

\* ------------------------------------------------------------ specification
InitIdle ==
  /\ prompt = 1
  /\ gen = "created" /\ gen_exc = NoExc
  /\ upstream = "none"
  /\ full_response = << >>
  /\ yielded = << >> /\ taken = 0
  /\ model_calls = 0
  /\ trace_log = << >>
  /\ fpc = "call" /\ chunks = << >>
  /\ executor = "none" /\ worker = "none" /\ worker_loop = "none"
  /\ future = NoExc
  /\ drained_on = {}
  /\ ambient = None
  /\ facade_exc = NoExc
  /\ facade_result = NoRecord
  /\ spc = "start" /\ frames = << >>
  /\ status = 0 /\ api_detail = << >>

IdleReducer ==
  rstate = "input" /\ rchunks = << >> /\ rambient = None /\ rresult = Raised("none")

IdleMessages == customer_documents = << >> /\ template = None /\ messages = << >>

\* the module-level generator of the routes has been constructed
IdleCtor ==
  /\ ctor_args = NoConfig
  /\ environ = [n \in EnvNames |-> <<"env">>]
  /\ cpc = "ready"
  /\ self_config = [k \in Settings |-> <<"env">>]
  /\ ctor_exc = NoExc
  /\ external_calls = <<"autolog", "WorkspaceClient", "load_prompt">>

IdleFeedback ==
  /\ feedback = NoFeedback /\ fb_pc = "idle" /\ assessments = << >>
  /\ fb_result = NoResult /\ fb_exc = NoExc /\ fb_response = NoResult

IdleClean == clean_text = << >> /\ method_outs = << >> /\ inline_outs = << >>

IdleConcurrent == requests = << >>

IdleEvaluate == trace = NoTrace /\ judge_calls = << >>

\* everything that is not part of the operation run on its own
IdleOthers == IdleConcurrent /\ IdleEvaluate

Init ==
  /\ entry \in {"facade", "sse", "sync"}
  /\ customer_name \in CustomerNames
  /\ user_input \in UserInputs
  /\ loop_running \in BOOLEAN
  /\ entry \in {"sse", "sync"} => loop_running
  /\ InitIdle
  /\ IdleReducer /\ IdleMessages /\ IdleCtor /\ IdleFeedback /\ IdleClean /\ IdleOthers

Next ==
  \/ LoadPromptFails \/ RetrieveFails \/ ModelCall
  \/ YieldToken \/ UpstreamFails \/ ParseResponse \/ GenReturn
  \/ FacadeSubmit \/ FacadeAsyncioRun \/ run_in_thread \/ collect_chunks
  \/ WorkerExit \/ FutureResult \/ AsyncioRunOver \/ FacadeReduce
  \/ SseStart \/ SseFrame \/ SseExcept \/ SseFinally
  \/ SseDisconnect \/ GeneratorFinalized
  \/ api_generate_email_with_retrieval

Spec == Init /\ [][Next]_vars

\* every step that can be taken is taken in the end
SpecLive == Init /\ [][Next]_vars /\ WF_vars(Next)

InitReducer ==
  /\ entry = "reducer"
  /\ customer_name = "EcomSolutions LLC"
  /\ user_input = None
  /\ loop_running = FALSE
  /\ InitIdle
  /\ rstate = "input"
  /\ rchunks \in ChunkLists
  /\ rambient \in AmbientIds
  /\ IdleMessages /\ IdleCtor /\ IdleFeedback /\ IdleClean /\ IdleOthers
  /\ rresult = Raised("none")

NextReducer == Reduce

SpecReducer == InitReducer /\ [][NextReducer]_vars

InitMessages ==
  /\ entry = "messages"
  /\ customer_name = "EcomSolutions LLC"
  /\ user_input \in Instructions
  /\ loop_running = FALSE
  /\ InitIdle /\ IdleReducer /\ IdleCtor /\ IdleFeedback /\ IdleClean /\ IdleOthers
  /\ customer_documents \in DocumentLists
  /\ template \in Templates
  /\ messages = << >>

NextMessages == CreateMessages

SpecMessages == InitMessages /\ [][NextMessages]_vars

InitConstruct ==
  /\ entry = "construct"
  /\ customer_name = "EcomSolutions LLC"
  /\ user_input = None
  /\ loop_running = FALSE
  /\ InitIdle /\ IdleReducer /\ IdleMessages /\ IdleFeedback /\ IdleClean /\ IdleOthers
  /\ ctor_args \in [Settings -> ArgValues]
  /\ environ \in [EnvNames -> EnvValues]
  /\ cpc = "new"
  /\ self_config = NoConfig
  /\ ctor_exc = NoExc
  /\ external_calls = << >>

NextConstruct == ReadConfig \/ Autolog \/ CreateClient \/ LoadPrompt

SpecConstruct == InitConstruct /\ [][NextConstruct]_vars

InitFeedback ==
  /\ entry = "feedback"
  /\ customer_name = "EcomSolutions LLC"
  /\ user_input = None
  /\ loop_running = TRUE
  /\ InitIdle /\ IdleReducer /\ IdleMessages /\ IdleCtor /\ IdleClean /\ IdleOthers
  /\ feedback \in FeedbackRequests
  /\ fb_pc = "request"
  /\ assessments = << >>
  /\ fb_result = NoResult /\ fb_exc = NoExc /\ fb_response = NoResult

NextFeedback == log_feedback \/ submit_feedback

SpecFeedback == InitFeedback /\ [][NextFeedback]_vars

InitClean ==
  /\ entry = "clean"
  /\ customer_name = "EcomSolutions LLC"
  /\ user_input = None
  /\ loop_running = FALSE
  /\ InitIdle /\ IdleReducer /\ IdleMessages /\ IdleCtor /\ IdleFeedback /\ IdleOthers
  /\ clean_text \in Texts
  /\ method_outs = << >> /\ inline_outs = << >>

NextClean == Clean

InitConcurrent ==
  /\ entry = "concurrent"
  /\ customer_name = "EcomSolutions LLC"
  /\ user_input = None
  /\ loop_running = TRUE
  /\ InitIdle /\ IdleReducer /\ IdleMessages /\ IdleCtor /\ IdleFeedback /\ IdleClean
  /\ IdleEvaluate
  /\ requests \in [Requests ->
       {Request(kind, "start", << >>, << >>, << >>, Raised("none")) : kind \in RequestKinds}]

NextConcurrent ==
  \/ \E r \in Requests : ConcurrentLoadPrompt(r)
  \/ \E r \in Requests : ConcurrentModelCall(r)
  \/ \E r \in Requests : ConcurrentYieldToken(r)
  \/ \E r \in Requests : ConcurrentParseResponse(r)
  \/ \E r \in Requests : ConcurrentReduce(r)

SpecConcurrent == InitConcurrent /\ [][NextConcurrent]_vars

InitEvaluate ==
  /\ entry = "evaluate"
  /\ customer_name = "EcomSolutions LLC"
  /\ user_input \in Instructions
  /\ loop_running = FALSE
  /\ InitIdle /\ IdleReducer /\ IdleMessages /\ IdleCtor /\ IdleFeedback /\ IdleClean
  /\ IdleConcurrent
  /\ trace \in StoredTraces(user_input)
  /\ judge_calls = << >>

NextEvaluate == RunScorer

SpecEvaluate == InitEvaluate /\ [][NextEvaluate]_vars

SpecClean == InitClean /\ [][NextClean]_vars

\* ------------------------------------------------------------------ claims

RECURSIVE TokenText(_)
TokenText(cs) ==
  IF cs = << >> THEN << >>
  ELSE (IF Head(cs).type = "token" THEN Head(cs).content ELSE << >>) \o TokenText(Tail(cs))

OfType(cs, type) == SelectSeq(cs, LAMBDA c : c.type = type)

\* what the reducer's own cleaning and parsing make of the token text
ParsedText(cs) == json_loads(InlineClean(TokenText(cs)))
IsObject(j) == j.ok /\ j.kind = "dict"

FacadeOver == fpc \in {"returned", "raised"}

\* C1: for every complete model output for an existing customer the facade
\* returns a record and does not raise.
C1_FacadeNeverRaisesOnModelOutput ==
  (entry = "facade" /\ upstream = "exhausted") => fpc # "raised"

\* C2: once the model output is complete and the generator is over, it has
\* yielded token chunks in arrival order followed by exactly one terminal chunk.
C2_TokensThenOneTerminal ==
  (upstream = "exhausted" /\ gen \in {"finished", "raised"}) =>
    /\ yielded # << >>
    /\ Last(yielded).type \in {"done", "error"}
    /\ \A i \in 1..(Len(yielded) - 1) : yielded[i].type = "token"
    /\ TokenText(yielded) = full_response

\* C3: a chunk list that ends with a done chunk carrying X reduces to a result
\* whose trace_id is X.
C3_DoneIdIsResultId ==
  (rstate = "reduced" /\ rchunks # << >> /\ Last(rchunks).type = "done") =>
    /\ rresult.exc = "none"
    /\ rresult.trace_id = Last(rchunks).trace_id

\* C4: when the token contents parse as an object with subject_line S and body B,
\* the reducer returns S and B, plus the done chunk's trace_id when there is one,
\* whatever error chunk the list holds.
C4_ParsedObjectIsReturned ==
  (rstate = "reduced" /\ IsObject(ParsedText(rchunks))
     /\ DictHas(ParsedText(rchunks).members, <<"subject_line">>)
     /\ DictHas(ParsedText(rchunks).members, <<"body">>)) =>
    LET members == ParsedText(rchunks).members
        dones == OfType(rchunks, "done")
        id == IF dones = << >> THEN None ELSE Last(dones).trace_id
    IN /\ rresult.exc = "none"
       /\ rresult.email_subject = DictGet(members, <<"subject_line">>, None)
       /\ rresult.email_body = DictGet(members, <<"body">>, None)
       /\ rresult.has_trace_id = Truthy(id)
       /\ rresult.has_trace_id => rresult.trace_id = id

C4_Witness ==
  /\ rstate = "reduced"
  /\ rresult.email_subject = <<"Hi">> /\ rresult.email_body = <<"Bye">>
  /\ rresult.trace_id = <<"tr-2">>
  /\ \E i \in 1..Len(rchunks) : rchunks[i].type = "error" /\ Truthy(rchunks[i].error)

\* C5: when the token contents do not parse as an object, the reducer returns the
\* fixed failure subject and the parse-failure detail as body, or the error chunk's
\* message when the list holds an error chunk; it never raises.
C5_FallbackOnUnparseable ==
  (rstate = "reduced" /\ ~IsObject(ParsedText(rchunks))) =>
    LET errors == OfType(rchunks, "error") IN
    /\ rresult.exc = "none"
    /\ rresult.email_subject = FailedSubject
    /\ rresult.email_body =
         IF errors # << >> THEN Last(errors).error
         ELSE <<"Failed to parse email: ">> \o StrOfJsonError(ParsedText(rchunks))

\* C6: the facade never raises the error asyncio.run gives when it is called
\* from a running event loop.
C6_NoSchedulerAlreadyRunningError ==
  fpc = "raised" => facade_exc # AsyncioRunError

\* C7: under a running loop the generator runs only on the worker's new loop, and
\* the loop is closed and the worker gone when the facade is over; without a
\* running loop there is no worker at all.
C7_WorkerOnlyUnderRunningLoop ==
  entry = "facade" =>
    /\ loop_running => drained_on \subseteq {"worker_loop"}
    /\ (loop_running /\ fpc \in {"reduce", "returned", "raised"}) =>
         worker = "exited" /\ worker_loop = "closed" /\ executor = "shutdown"
    /\ ~loop_running =>
         worker = "none" /\ worker_loop = "none" /\ executor = "none"
           /\ drained_on \subseteq {"asyncio_run_loop"}

C7_Witness ==
  /\ entry = "facade" /\ loop_running /\ FacadeOver
  /\ worker = "exited" /\ drained_on = {"worker_loop"} /\ Len(chunks) >= 2

\* C8: the record the facade returns is the reducer's result for the complete
\* chunk list of one full drain of the generator.
C8_FacadeIsReducerOfDrain ==
  fpc = "returned" =>
    LET reduced == _stream_email_reducer_static(yielded, ambient) IN
    /\ gen = "finished" /\ model_calls = 1
    /\ reduced.exc = "none"
    /\ facade_result.subject_line = reduced.email_subject
    /\ facade_result.body = reduced.email_body
    /\ facade_result.trace_id = IF reduced.has_trace_id THEN reduced.trace_id ELSE None

C8_Witness ==
  /\ fpc = "returned" /\ Len(yielded) = 4
  /\ facade_result = [subject_line |-> <<"Hi">>, body |-> <<"Bye">>, trace_id |-> <<"tr-1">>]

\* C9: a closed SSE response ends with the closing done frame, and no frame is
\* sent after it.
C9_ClosingDoneFrameIsLast ==
  /\ [](spc = "closed" => (frames # << >> /\ Last(frames) = ClosingFrame))
  /\ [][spc = "closed" => frames' = frames]_vars

C9_Witness ==
  /\ spc = "closed" /\ gen = "raised" /\ gen_exc.type = "KeyError"
  /\ Len(frames) >= 3

HasErrorFrame == \E i \in 1..Len(frames) : frames[i].type = "error"
HasTracedDoneFrame ==
  \E i \in 1..Len(frames) : frames[i].type = "done" /\ frames[i].has_trace_id
GenerationFailed == gen = "raised" \/ OfType(yielded, "error") # << >>
GenerationSucceeded == OfType(yielded, "done") # << >>

\* C10: an SSE response holds an error frame exactly when generation failed, a
\* done frame with a trace_id exactly when it succeeded, and never both.
C10_ErrorFrameIffFailed ==
  entry = "sse" =>
    /\ ~(HasErrorFrame /\ HasTracedDoneFrame)
    /\ spc = "closed" =>
         /\ HasErrorFrame <=> GenerationFailed
         /\ HasTracedDoneFrame <=> GenerationSucceeded

C10_Witness ==
  /\ spc = "closed" /\ gen = "finished"
  /\ HasErrorFrame /\ ~HasTracedDoneFrame /\ Len(frames) >= 3

NoTokenFrame == \A i \in 1..Len(frames) : frames[i].type # "token"

C12_NotFoundStatusOnlyForUnknownCustomer ==
  (entry = "sync" /\ status = 404) =>
    (customer_name \notin Customers /\ gen_exc = NotFound(customer_name))

\* C13: the synchronous endpoint answers 503 when the call to the model endpoint
\* failed, and only then.
C13_UpstreamFailureIs503 ==
  (entry = "sync" /\ status # 0) => (upstream = "failed" <=> status = 503)

\* C14: when the complete model output for an existing customer does not parse
\* as JSON, the synchronous endpoint answers 500.
C14_UnparseableOutputIs500 ==
  (entry = "sync" /\ status # 0 /\ upstream = "exhausted"
     /\ ~json_loads(_clean_json_response(full_response)).ok) => status = 500

\* C15: _create_messages returns exactly two messages, system then user; the
\* system content is the prompt template; the user content is the formatted
\* customer sections, followed by a 'User Instructions' section holding the
\* instruction exactly when the instruction is a non-empty string.
C15_TwoMessagesInstructionIffNonEmpty ==
  (entry = "messages" /\ messages # << >>) =>
    LET sections == customer_info(customer_documents)
        user == messages[2].content
    IN /\ Len(messages) = 2
       /\ messages[1].role = "system" /\ messages[2].role = "user"
       /\ template # None => messages[1].content = template
       /\ template = None => messages[1].content = << >>
       /\ user_input \in {None, << >>} => user = sections
       /\ user_input \notin {None, << >>} =>
            /\ Len(user) = Len(sections) + 4 + Len(user_input)
            /\ SubSeq(user, 1, Len(sections)) = sections
            /\ SubSeq(user, Len(sections) + 1, Len(sections) + 4) =
                 <<"\n", "\n", "User Instructions:", "\n">>
            /\ SubSeq(user, Len(sections) + 5, Len(user)) = user_input

C15_Witness ==
  /\ entry = "messages" /\ Len(messages) = 2
  /\ Len(customer_documents) = 2 /\ user_input = << >>
  /\ messages[2].content =
       <<"S", "u", "p", "p", "o", "r", "t", " ", "T", "i", "c", "k", "e", "t", "s", ":", "\n",
         "**Name**: EcomSolutions LLC", "\n", "\n",
         "K", "p", "i", " ", "2", "X", ":", "\n">>

Absent(k) == ctor_args[k] = None /\ environ[EnvName(k)] = None

\* C16: when one of the five settings is absent from both the arguments and the
\* environment, __init__ raises before any external call (autolog, client,
\* prompt load) is made and never completes; a generator whose construction
\* completed has all five settings.
C16_IncompleteConfigRaisesAtConstruction ==
  entry = "construct" =>
    /\ (\E k \in Settings : Absent(k)) =>
         /\ cpc \in {"new", "raised"}
         /\ external_calls = << >>
         /\ cpc = "raised" => ctor_exc.type \in {"ValueError", "Exception"}
    /\ cpc \notin {"new", "raised"} => \A k \in Settings : Truthy(self_config[k])
    /\ Len(external_calls) > 0 => \A k \in Settings : Truthy(self_config[k])

C16_Witness ==
  /\ entry = "construct" /\ cpc = "raised" /\ external_calls = << >>
  /\ ~Absent("model") /\ Absent("uc_schema")
  /\ \A k \in Settings \ {"uc_schema"} : Truthy(self_config[k])
  /\ ctor_exc.type = "Exception"

\* C17: log_feedback never raises; it returns success = True with the success
\* message exactly when the external call completed (the assessment is stored),
\* and success = False with 'Error submitting feedback: ' and the error text
\* otherwise; POST /api/feedback answers with that record unchanged.
C17_FeedbackNeverRaises ==
  entry = "feedback" =>
    /\ fb_exc = NoExc /\ fb_pc \in {"request", "logged", "answered"}
    /\ fb_pc \in {"logged", "answered"} =>
         /\ fb_result.success <=> Len(assessments) = 1
         /\ fb_result.success => fb_result.message = <<"Feedback submitted successfully">>
         /\ ~fb_result.success =>
              \E e \in FeedbackErrors :
                fb_result.message = <<"Error submitting feedback: ">> \o e.msg
         /\ Len(assessments) = 1 =>
              /\ assessments[1].trace_id = feedback.trace_id
              /\ assessments[1].value = (feedback.rating = "up")
    /\ fb_pc = "answered" => fb_response = fb_result

C17_Witness ==
  /\ entry = "feedback" /\ fb_pc = "answered" /\ feedback.rating = "down"
  /\ assessments = << >>
  /\ fb_response = Result(FALSE, <<"Error submitting feedback: ", "Connection", "refused">>)

\* the id of the last done chunk, None when there is none
DoneId(cs) ==
  LET done == OfType(cs, "done") IN IF done = << >> THEN None ELSE Last(done).trace_id

\* C18 as stated: the reducer's result is the same whatever trace is active at
\* the time of the call.
C18_ReducerIgnoresAmbient ==
  rstate = "reduced" =>
    \A a \in AmbientIds : _stream_email_reducer_static(rchunks, a) = rresult

\* C18 amended: whatever trace is active, the reducer gives the same outcome,
\* subject and body; the trace_id differs only on the parse-failure path when no
\* done chunk carried a non-empty id, where it is the id of the active trace.
C18_ReducerPureButForFallbackTraceId ==
  rstate = "reduced" =>
    \A a \in AmbientIds :
      LET other == _stream_email_reducer_static(rchunks, a) IN
      /\ other.exc = rresult.exc
      /\ other.email_subject = rresult.email_subject
      /\ other.email_body = rresult.email_body
      /\ other.has_trace_id = rresult.has_trace_id
      /\ (Truthy(DoneId(rchunks)) \/ ParsedText(rchunks).ok) => other = rresult
      /\ (~Truthy(DoneId(rchunks)) /\ ~ParsedText(rchunks).ok) =>
           (rresult.trace_id = rambient /\ other.trace_id = a)

C18_Witness ==
  /\ rstate = "reduced" /\ rambient = <<"tr-outer">>
  /\ rchunks = <<TokenChunk(Junk), DoneChunk(None)>>
  /\ rresult.email_subject = FailedSubject /\ rresult.trace_id = <<"tr-outer">>

NonTokens(cs) == SelectSeq(cs, LAMBDA c : c.type # "token")

\* C20: the reducer's result is the result for the list that holds the
\* concatenated token text in a single token chunk followed by the same done
\* and error chunks; so lists with the same done and error chunks and the same
\* concatenated text reduce to the same result, however the text is split.
C20_TokensCountOnlyByConcatenation ==
  rstate = "reduced" =>
    rresult = _stream_email_reducer_static(
                <<TokenChunk(TokenText(rchunks))>> \o NonTokens(rchunks), rambient)

C20_Witness ==
  /\ rstate = "reduced"
  /\ rchunks = <<TokenChunk(FenceJson), TokenChunk(Obj), TokenChunk(FenceEnd)>>
  /\ rresult.exc = "none" /\ rresult.email_subject # FailedSubject
  /\ rresult = _stream_email_reducer_static(
                  <<TokenChunk(FenceJson \o Obj \o FenceEnd)>>, rambient)

\* the input of the i-th application
InputOf(outs, i) == IF i = 1 THEN clean_text ELSE outs[i - 1]

\* C19 as stated: applying either cleaner to its own output returns that output.
C19_CleanIsIdempotent ==
  entry = "clean" =>
    /\ \A i \in 2..Len(method_outs) : method_outs[i] = method_outs[1]
    /\ \A i \in 2..Len(inline_outs) : inline_outs[i] = inline_outs[1]

Fenced(t) ==
  \/ startswith(t, FenceJson) /\ endswith(t, FenceEnd)
  \/ startswith(t, Fence) /\ endswith(t, Fence)

BQCount(t) == Len(SelectSeq(t, LAMBDA c : c = BQ))

\* the cleaner maps input to output as one application should
OneApplication(input, output) ==
  /\ strip(output) = output
  /\ (strip(input) = input /\ ~Fenced(input)) => output = input
  /\ BQCount(input) - BQCount(output) \in 0..6
  /\ BQCount(input) # BQCount(output) => Fenced(strip(input))

\* C19 amended: either cleaner returns text without surrounding whitespace,
\* leaves unchanged every text that has no surrounding whitespace and does not
\* both start and end with a fence marker, and removes at most one pair of
\* fence markers; the inline copy's output is the method's output on the
\* stripped text.
C19_CleanRemovesAtMostOnePair ==
  entry = "clean" =>
    /\ \A i \in 1..Len(method_outs) : OneApplication(InputOf(method_outs, i), method_outs[i])
    /\ \A i \in 1..Len(inline_outs) :
         /\ OneApplication(InputOf(inline_outs, i), inline_outs[i])
         /\ inline_outs[i] = _clean_json_response(strip(InputOf(inline_outs, i)))

C19_Witness ==
  /\ entry = "clean"
  /\ clean_text = <<" ">> \o Fence \o Junk \o Fence
  /\ method_outs = <<Fence \o Junk \o Fence, Junk>>
  /\ inline_outs = <<Junk, Junk>>

\* C21 as stated: no step of a request changes the generator's prompt field.
C21_PromptOnlyRead == [][prompt' = prompt]_vars

\* C21 amended: the prompt field is written only by the first step of the
\* producer (the reload at the start of every request) and is left alone by
\* every later step of the request.
C21_PromptReloadedOnlyAtStart ==
  [][prompt' # prompt => (gen = "created" /\ gen' \in {"streaming", "raised"})]_vars

C21_Witness == gen = "streaming" /\ prompt = 2 /\ Len(yielded) = 1

\* C23: after the client has gone away before the terminal chunk, the streaming
\* response of the model endpoint is closed in the end.
C23_AbandonedStreamReleased == (spc = "disconnected") ~> (upstream # "open")

\* C24: the trace is updated only in a run that ends with a done chunk, and
\* only after the last token chunk.
C24_TraceUpdatedOnlyOnSuccess ==
  trace_log # << >> =>
    /\ yielded # << >> /\ Last(yielded).type = "done"
    /\ \A i \in 1..Len(trace_log) : trace_log[i].after = Len(OfType(yielded, "token"))

\* C25: the method and the reducer's inline copy clean the accumulated response
\* to the same string, and the producer's terminal chunk is a done chunk
\* exactly when the reducer parses the run's chunks, an error chunk exactly when
\* the reducer returns the failure subject.
C25_InlineCleanIsTheMethod ==
  gen \in {"terminal", "finished"} =>
    LET reduced == _stream_email_reducer_static(yielded, None) IN
    /\ _clean_json_response(full_response) = InlineClean(full_response)
    /\ Last(yielded).type = "done" <=> ParsedText(yielded).ok
    /\ Last(yielded).type = "error" <=> reduced.email_subject = FailedSubject

\* C28: a tag update of the run says 'yes' exactly when the user message of the
\* run's model call carries the appended instruction section.
C28_TagAgreesWithMessage ==
  \A i \in 1..Len(trace_log) :
    trace_log[i].tags \in {"yes", "no"} =>
      /\ Len(messages) = 2
      /\ trace_log[i].tags = "yes" <=>
           messages[2].content =
             customer_info(customer_documents) \o UserInstructions(user_input)
      /\ trace_log[i].tags = "no" <=>
           messages[2].content = customer_info(customer_documents)

C28_Witness ==
  /\ gen = "finished" /\ user_input = <<" ">>
  /\ Len(trace_log) = 2 /\ trace_log[1].tags = "yes"
  /\ Last(messages[2].content) = " "

\* C29: within one facade call the model endpoint is called at most once, the
\* producer is drained in at most one context, and the chunk list is what that
\* one drain has yielded.
C29_ProducerStartedAtMostOnce ==
  entry \in FacadeEntries =>
    /\ model_calls <= 1
    /\ Cardinality(drained_on) <= 1
    /\ chunks = SubSeq(yielded, 1, taken)
    /\ fpc \in {"reduce", "returned"} =>
         (chunks = yielded /\ Len(OfType(chunks, "token")) = Len(chunks) - 1)

C29_Witness ==
  /\ entry = "facade" /\ loop_running /\ fpc = "raised"
  /\ facade_exc = AsyncioRunError /\ IsRuntimeError(future)
  /\ model_calls = 1 /\ Len(chunks) = 2 /\ drained_on = {"worker_loop"}

\* C30: the facade's outcome is the same with and without a running loop: an
\* exception of the drain is raised as it is, and a completed drain gives the
\* record of the reducer's result.
C30_OutcomeIndependentOfLoop ==
  (entry \in FacadeEntries /\ FacadeOver) =>
    /\ gen = "raised" => (fpc = "raised" /\ facade_exc = gen_exc)
    /\ fpc = "returned" =>
         facade_result = FacadeRecord(_stream_email_reducer_static(yielded, ambient))

\* C26: on the parse-failure path the result always has a trace_id entry; it is
\* the id the done chunk carried when it carried one (a done chunk whose id is
\* None or empty carries none), otherwise the id of the active trace, which is
\* None when no trace is active.
C26_FallbackTraceIdPrecedence ==
  (rstate = "reduced" /\ ~ParsedText(rchunks).ok) =>
    /\ rresult.exc = "none"
    /\ rresult.email_subject = FailedSubject
    /\ rresult.has_trace_id
    /\ rresult.trace_id = IF Truthy(DoneId(rchunks)) THEN DoneId(rchunks) ELSE rambient

C26_Witness ==
  /\ rstate = "reduced" /\ ~ParsedText(rchunks).ok
  /\ Truthy(DoneId(rchunks)) /\ Truthy(rambient) /\ rambient # DoneId(rchunks)
  /\ rresult.trace_id = DoneId(rchunks)

\* C27: every scorer's judge sees the instruction of the request the trace is
\* of: email_is_grounded builds the request text with it when it is non-empty
\* and the plain request text otherwise, and the other scorers pass it as
\* user_input.
C27_ScorersSeeTheInstruction ==
  \A i \in 1..Len(judge_calls) :
    LET call == judge_calls[i] IN
    IF call.scorer = "email_is_grounded"
    THEN call.request = IF Truthy(trace.user_input)
                        THEN GroundedRequestWith(trace.user_input)
                        ELSE GroundedRequestPlain
    ELSE IF Truthy(trace.user_input)
         THEN call.user_input = trace.user_input
         ELSE ~Truthy(call.user_input)

IsPrefix(a, b) == Len(a) <= Len(b) /\ a = SubSeq(b, 1, Len(a))
TokenContentsOf(cs) ==
  LET tokens == OfType(cs, "token") IN [i \in 1..Len(tokens) |-> tokens[i].content]

\* C22: under every interleaving each request keeps its own data: its chunk
\* list holds, in order, only tokens the endpoint streamed for it, its buffer
\* is their concatenation, its messages are composed from its own customer and
\* instruction, and its result is the email of its own response.
C22_RequestsKeepTheirOwnData ==
  entry = "concurrent" =>
    \A r \in DOMAIN requests :
      LET q == requests[r] IN
      /\ IsPrefix(TokenContentsOf(q.chunks), ModelOutput(r))
      /\ q.full_response = TokenText(q.chunks)
      /\ q.pc # "raised"
      /\ q.pc \in {"streaming", "terminal", "done"} =>
           /\ Len(q.messages) = 2
           /\ q.messages[2].content =
                customer_info(RetrievedDocuments(CustomerOf(r)))
                \o (IF Truthy(InstructionOf(r)) THEN UserInstructions(InstructionOf(r))
                    ELSE << >>)
      /\ q.pc = "done" =>
           /\ q.result.exc = "none"
           /\ q.result.email_body = PyStr(BodyLexOf(r))
           /\ TokenText(q.chunks) = ObjectOf(r)

C22_Witness ==
  /\ entry = "concurrent"
  /\ requests[1].kind = "sse" /\ requests[2].kind = "sync"
  /\ requests[1].pc = "streaming" /\ Len(requests[1].chunks) = 1
  /\ requests[2].pc = "streaming" /\ Len(requests[2].chunks) = 1
  /\ requests[1].full_response # requests[2].full_response

====
